---- MODULE Spec2Model ----
(***************************************************************************)
(* openring: the conditional feed fetch protocol (src/feedfetcher.rs), the *)
(* cache store (src/cache.rs) and the orchestrator (src/lib.rs).           *)
(*                                                                         *)
(* Time is counted in whole hours: a Timestamp is the number of hours      *)
(* since the model's epoch, a Span the number of hours it lasts, and a     *)
(* Retry-After header value N stands for N hours' worth of seconds.  The   *)
(* limits of jiff's Span and Timestamp are whole numbers of hours, so they *)
(* keep their exact values in this unit.                                   *)
(***************************************************************************)
EXTENDS Integers, Sequences, FiniteSets, TLC

(* Option<T>: None is the empty sequence, Some(x) the one-element one. *)
None == <<>>
Some(x) == <<x>>
IsSome(o) == o # <<>>
Unwrap(o) == o[1]

(* ---------------------------------------------------------------- bounds *)

(* The clock runs from 0 to MaxTime. *)
MaxTime == 1

(* ETag header values have at most MaxEtagLen characters. *)
MaxEtagLen == 5

(* ------------------------------------------------------- program constants *)

(* MAX_SPAN_SEC = 631_107_417_600 s, in hours: the largest Span of seconds. *)
MAX_SPAN_SEC == 175307616

(* Timestamp::MAX.as_second() = 253_402_207_200 s, in hours. *)
TIMESTAMP_MAX == 70389502

(* 4.hours(), the Retry-After default. *)
DEFAULT_RETRY_HOURS == 4

(* ------------------------------------------------------------ the universe *)

Urls == {"u1", "u2"}

(* Characters of an ETag header value: the double quote, W, / and a letter. *)
DQ == "q"
EtagChars == {DQ, "W", "/", "a"}

(* Feed payloads: "A" and "B" are well-formed feeds, "X" is not feed       *)
(* markup, "" is the empty payload of a 304.                               *)
ValidFeeds == {"A", "B"}

VARIABLES
    cache,        \* the in-memory Cache: url -> Option<CacheValue>
    now,          \* Timestamp::now()
    call,         \* what the last fetch_feed call saw and did
    etag_header,  \* an ETag header value, as the server sent it
    etag_stored,  \* the etag fetch_feed stores for it
    file,         \* the cache file: absent, or its text
    file_mtime,   \* when the cache file was last written
    loaded,       \* what the last Cache::load saw and returned
    args,         \* the command line of a run
    run,          \* where run() stands, and the error it ended with
    start_cache,  \* the Cache run() started from
    task,         \* the units of work of get_feeds_from_urls, one per list position
    feeds,        \* the (feed, url) pairs get_feeds_from_urls returned
    articles      \* the article list run() hands to the template

vars ==
    <<cache, now, call, etag_header, etag_stored, file, file_mtime, loaded,
      args, run, start_cache, task, feeds, articles>>
fetchVars == <<call>>
etagVars == <<etag_header, etag_stored>>
diskVars == <<file, file_mtime, loaded>>
runVars == <<args, run, start_cache, task, feeds, articles>>

(* ----------------------------------------------------------------- helpers *)

(* str::starts_with / str::ends_with on a string given as a sequence. *)
StartsWith(s, p) == Len(s) >= Len(p) /\ SubSeq(s, 1, Len(p)) = p
EndsWith(s, p) == Len(s) >= Len(p) /\ SubSeq(s, Len(s) - Len(p) + 1, Len(s)) = p

normalize_etag_WrapsUnlessWeak(s) ==
    IF StartsWith(s, <<"W", "/", DQ>>) /\ EndsWith(s, <<DQ>>)
    THEN s
    ELSE <<DQ>> \o s \o <<DQ>>

(* The ETag normalisation of fetch_feed: keep a value that starts and ends *)
(* with a quote, or starts with W/" and ends with a quote; wrap any other  *)
(* value in quotes.                                                        *)
normalize_etag(s) ==
    IF (StartsWith(s, <<DQ>>) /\ EndsWith(s, <<DQ>>))
       \/ (StartsWith(s, <<"W", "/", DQ>>) /\ EndsWith(s, <<DQ>>))
    THEN s
    ELSE <<DQ>> \o s \o <<DQ>>

(* feed_rs::parser::parse at the boundary: a feed or a parse error. *)
parse(body) ==
    IF body \in ValidFeeds
    THEN [kind |-> "ok", feed |-> body, err |-> "", url |-> "", status |-> 0]
    ELSE [kind |-> "err", feed |-> "", err |-> "ParseFeedError", url |-> "", status |-> 0]

Err(e, u, st) == [kind |-> "err", feed |-> "", err |-> e, url |-> u, status |-> st]
Panic == [kind |-> "panic", feed |-> "", err |-> "", url |-> "", status |-> 0]

(* Span::seconds / ToSpan::seconds panics outside [-MAX_SPAN_SEC, MAX_SPAN_SEC]. *)
SpanInRange(n) == -MAX_SPAN_SEC <= n /\ n <= MAX_SPAN_SEC

(* Timestamp + Span panics when the sum leaves the Timestamp range. *)
TimestampAddOverflows(ts, span) == ts + span > TIMESTAMP_MAX

(* s.parse::<i64>().ok() on a header value: the integer, or None. *)
ParseI64(h) == IF h.int THEN Some(h.n) ELSE None

(* A Span keeps the units it was built from: n.seconds() and 4.hours(). *)
Seconds(n) == [hours |-> 0, seconds |-> n]
Hours(n) == [hours |-> n, seconds |-> 0]
SpanTotal(sp) == sp.hours + sp.seconds

CacheValue(ts, ra, lm, et, b) ==
    [timestamp |-> ts, retry_after |-> ra, last_modified |-> lm, etag |-> et, body |-> b]

(* ------------------------------------------------------------- the network *)

Http(st, et, lm, ra, b) ==
    [kind |-> "http", status |-> st, etag |-> et, last_modified |-> lm,
     retry_after |-> ra, body |-> b]
TransportError ==
    [kind |-> "error", status |-> 0, etag |-> None, last_modified |-> None,
     retry_after |-> None, body |-> None]
NoResponse ==
    [kind |-> "none", status |-> 0, etag |-> None, last_modified |-> None,
     retry_after |-> None, body |-> None]

(* A header value that is an integer, and one that is not. *)
IntHeader(n) == [int |-> TRUE, n |-> n]
TextHeader == [int |-> FALSE, n |-> 0]

(* ETag and Last-Modified headers a server sends, each present or absent. *)
ValidatorHeaders ==
    { <<None, None>>,
      <<Some(<<"a">>), Some("lm1")>>,
      <<Some(<<"W", "/", DQ, "a", DQ>>), None>>,
      <<None, Some("lm2")>> }

(* Retry-After headers: absent, not a number, one hour, negative, the       *)
(* largest Span, and one past the largest Span.                            *)
RetryAfterHeaders ==
    { None, Some(TextHeader), Some(IntHeader(1)), Some(IntHeader(-1)),
      Some(IntHeader(MAX_SPAN_SEC)), Some(IntHeader(MAX_SPAN_SEC + 1)) }

(* Statuses a server answers with: 200, another 2xx, 304, 429, and others. *)
SuccessStatuses == {200, 201}
OtherStatuses == {403, 500}

(* What the server behind u can answer.  The body of a 2xx is a feed, not  *)
(* feed markup, or unreadable (r.text() failed); a 304 carries no payload. *)
(* The server behind u2 is a plain one: a feed, an error, or no answer.    *)
Responses(u) ==
    IF u = "u1"
    THEN { Http(st, v[1], v[2], None, b) :
             st \in SuccessStatuses, v \in ValidatorHeaders,
             b \in {None, Some("A"), Some("B"), Some("X")} }
         \cup { Http(304, v[1], v[2], None, b) :
             v \in ValidatorHeaders, b \in {None, Some("")} }
         \cup { Http(429, None, None, ra, Some("")) : ra \in RetryAfterHeaders }
         \cup { Http(st, None, None, None, Some("")) : st \in OtherStatuses }
         \cup { TransportError }
    ELSE { Http(200, None, None, None, Some("A")),
           Http(500, None, None, None, Some("")),
           TransportError }

(* ------------------------------------------------- fetch_feed, step by step *)

NoRequest == [sent |-> FALSE, if_modified_since |-> None, if_none_match |-> None]

(* cv.timestamp + retry > Timestamp::now() *)
RetryWindowOpen(cv) ==
    /\ IsSome(cv.retry_after)
    /\ cv.timestamp + SpanTotal(Unwrap(cv.retry_after)) > now

(* ... where the addition panics on overflow. *)
RetryCheckPanics(cv) ==
    /\ IsSome(cv.retry_after)
    /\ TimestampAddOverflows(cv.timestamp, SpanTotal(Unwrap(cv.retry_after)))

(* The early return: the window is open and a body is cached. *)
ServesFromCache(cvo) ==
    /\ IsSome(cvo)
    /\ ~RetryCheckPanics(Unwrap(cvo))
    /\ RetryWindowOpen(Unwrap(cvo))
    /\ IsSome(Unwrap(cvo).body)

(* Whether fetch_feed gets as far as req.send(). *)
SendsRequest(cvo) ==
    ~(IsSome(cvo) /\ RetryCheckPanics(Unwrap(cvo))) /\ ~ServesFromCache(cvo)

BuildRequest_BothOrNeither(cvo) ==
    LET both == IsSome(cvo) /\ IsSome(Unwrap(cvo).last_modified) /\ IsSome(Unwrap(cvo).etag) IN
    [sent |-> TRUE,
     if_modified_since |-> IF both THEN Unwrap(cvo).last_modified ELSE None,
     if_none_match |-> IF both THEN Unwrap(cvo).etag ELSE None]

(* The GET request with the conditional headers of the cache entry. *)
BuildRequest(cvo) ==
    [sent |-> TRUE,
     if_modified_since |-> IF IsSome(cvo) THEN Unwrap(cvo).last_modified ELSE None,
     if_none_match |-> IF IsSome(cvo) THEN Unwrap(cvo).etag ELSE None]

IsSuccess(st) == 200 <= st /\ st <= 299
NOT_MODIFIED == 304
TOO_MANY_REQUESTS == 429

(* The etag header, normalised. *)
EtagOf(resp) ==
    IF IsSome(resp.etag) THEN Some(normalize_etag(Unwrap(resp.etag))) ELSE None

BodyAfterSuccess_Payload(cvo, resp) == resp.body

(* The body fetch_feed goes on with after a 2xx or a 304. *)
BodyAfterSuccess(cvo, resp) ==
    IF IsSome(cvo) /\ resp.status = NOT_MODIFIED THEN Unwrap(cvo).body ELSE resp.body

EntryAfterSuccess_SkipsUnparseable(cvo, resp) ==
    IF IsSome(resp.body) /\ parse(Unwrap(resp.body)).kind # "ok" /\ resp.status # NOT_MODIFIED
    THEN cvo
    ELSE IF IsSome(cvo)
    THEN IF resp.status = NOT_MODIFIED
         THEN Some([Unwrap(cvo) EXCEPT !.timestamp = now])
         ELSE Some([Unwrap(cvo) EXCEPT !.etag = EtagOf(resp),
                                       !.last_modified = resp.last_modified,
                                       !.body = resp.body,
                                       !.timestamp = now])
    ELSE Some(CacheValue(now, None, resp.last_modified, EtagOf(resp), resp.body))

EntryAfterSuccess_KeepsValidators(cvo, resp) ==
    IF IsSome(cvo)
    THEN IF resp.status = NOT_MODIFIED
         THEN Some([Unwrap(cvo) EXCEPT !.timestamp = now])
         ELSE Some([Unwrap(cvo) EXCEPT
                      !.etag = IF IsSome(resp.etag) THEN EtagOf(resp) ELSE @,
                      !.last_modified = IF IsSome(resp.last_modified)
                                        THEN resp.last_modified ELSE @,
                      !.body = resp.body,
                      !.timestamp = now])
    ELSE Some(CacheValue(now, None, resp.last_modified, EtagOf(resp), resp.body))

(* "Update cache" after a 2xx or a 304: the entry afterwards. *)
EntryAfterSuccess(cvo, resp) ==
    IF IsSome(cvo)
    THEN IF resp.status = NOT_MODIFIED
         THEN Some([Unwrap(cvo) EXCEPT !.timestamp = now])
         ELSE Some([Unwrap(cvo) EXCEPT !.etag = EtagOf(resp),
                                       !.last_modified = resp.last_modified,
                                       !.body = resp.body,
                                       !.timestamp = now])
    ELSE Some(CacheValue(now, None, resp.last_modified, EtagOf(resp), resp.body))

(* The Retry-After header as an integer, when it is one. *)
RetryAfterSeconds(resp) ==
    IF IsSome(resp.retry_after) THEN ParseI64(Unwrap(resp.retry_after)) ELSE None

(* ToSpan::seconds panics on an integer outside the Span range. *)
RetryAfterPanics(resp) ==
    IsSome(RetryAfterSeconds(resp)) /\ ~SpanInRange(Unwrap(RetryAfterSeconds(resp)))

(* .map(ToSpan::seconds).or(Some(4.hours())) *)
RetryAfterOf(resp) ==
    IF IsSome(RetryAfterSeconds(resp))
    THEN Some(Seconds(Unwrap(RetryAfterSeconds(resp))))
    ELSE Some(Hours(DEFAULT_RETRY_HOURS))

(* The entry after a 429: the timestamp is written first, then the header  *)
(* is read, then retry_after is written.                                   *)
EntryAfterTooManyRequests(cvo, resp) ==
    IF IsSome(cvo)
    THEN IF RetryAfterPanics(resp)
         THEN Some([Unwrap(cvo) EXCEPT !.timestamp = now])
         ELSE Some([Unwrap(cvo) EXCEPT !.timestamp = now,
                                       !.retry_after = RetryAfterOf(resp)])
    ELSE cvo

(* What a 429 yields before parsing: the cached body or an error. *)
BodyAfterTooManyRequests(u, cvo) ==
    IF IsSome(cvo)
    THEN IF IsSome(Unwrap(cvo).body)
         THEN [ok |-> TRUE, body |-> Unwrap(cvo).body, err |-> Err("", "", 0)]
         ELSE [ok |-> FALSE, body |-> None, err |-> Err("EmptyFeedError", u, 0)]
    ELSE [ok |-> FALSE, body |-> None, err |-> Err("RateLimitError", u, 0)]

(* match body { Ok(feed_str) => parse, Err(e) => Err(e) } *)
ParseBody(b) == IF b.ok THEN parse(Unwrap(b.body)) ELSE b.err

(* body.ok_or(EmptyFeedError(url)) *)
OkOr(u, body) ==
    IF IsSome(body)
    THEN [ok |-> TRUE, body |-> body, err |-> Err("", "", 0)]
    ELSE [ok |-> FALSE, body |-> None, err |-> Err("EmptyFeedError", u, 0)]

(* The arm of match r.status() that a response falls in. *)
IsSuccessOrNotModified(resp) ==
    resp.kind = "http" /\ (IsSuccess(resp.status) \/ resp.status = NOT_MODIFIED)
IsTooManyRequests(resp) ==
    resp.kind = "http" /\ ~IsSuccessOrNotModified(resp) /\ resp.status = TOO_MANY_REQUESTS
IsUnexpected(resp) ==
    resp.kind = "http" /\ ~IsSuccessOrNotModified(resp) /\ ~IsTooManyRequests(resp)

EntryAfter_TouchOnError(cvo, resp) ==
    IF IsSuccessOrNotModified(resp) THEN EntryAfterSuccess(cvo, resp)
    ELSE IF IsTooManyRequests(resp) THEN EntryAfterTooManyRequests(cvo, resp)
    ELSE IF IsSome(cvo) THEN Some([Unwrap(cvo) EXCEPT !.timestamp = now])
    ELSE cvo

EntryAfter_DropsBodyOnTransportError(cvo, resp) ==
    IF IsSuccessOrNotModified(resp) THEN EntryAfterSuccess(cvo, resp)
    ELSE IF IsTooManyRequests(resp) THEN EntryAfterTooManyRequests(cvo, resp)
    ELSE IF resp.kind = "error" /\ IsSome(cvo)
    THEN Some([Unwrap(cvo) EXCEPT !.body = None, !.timestamp = now])
    ELSE cvo

(* The entry of u after fetch_feed got resp. *)
EntryAfter(cvo, resp) ==
    IF IsSuccessOrNotModified(resp) THEN EntryAfterSuccess(cvo, resp)
    ELSE IF IsTooManyRequests(resp) THEN EntryAfterTooManyRequests(cvo, resp)
    ELSE cvo

(* What fetch_feed returns after resp. *)
ResultAfter(u, cvo, resp) ==
    IF resp.kind = "error" THEN Err("ReqwestError", "", 0)
    ELSE IF IsSuccessOrNotModified(resp)
         THEN ParseBody(OkOr(u, BodyAfterSuccess(cvo, resp)))
    ELSE IF IsTooManyRequests(resp)
         THEN IF IsSome(cvo) /\ RetryAfterPanics(resp)
              THEN Panic
              ELSE ParseBody(BodyAfterTooManyRequests(u, cvo))
    ELSE Err("UnexpectedStatusError", u, resp.status)

(* The result of the early part: a panic or the cached body, parsed. *)
ResultWithoutRequest(cvo) ==
    IF RetryCheckPanics(Unwrap(cvo)) THEN Panic ELSE parse(Unwrap(Unwrap(cvo).body))

NoResult == [kind |-> "none", feed |-> "", err |-> "", url |-> "", status |-> 0]
NoCall ==
    [url |-> "", at |-> 0, before |-> [u \in Urls |-> None], request |-> NoRequest,
     resp |-> NoResponse, result |-> NoResult]

(* run() has not been called. *)
NUM_ARTICLES_DEFAULT == 3
PER_SOURCE_DEFAULT == 1
NoArgs ==
    [url |-> <<>>, cache |-> FALSE, max_cache_age |-> 0,
     num_articles |-> NUM_ARTICLES_DEFAULT, per_source |-> PER_SOURCE_DEFAULT, before |-> None]
NotRunning == [pc |-> "none", error |-> "", writes |-> 0, started |-> 0]

(* The parts of the state that no fetch touches. *)
EtagIdle == etag_header = <<>> /\ etag_stored = None
RunIdle ==
    /\ args = NoArgs
    /\ run = NotRunning
    /\ start_cache = <<>>
    /\ task = <<>>
    /\ feeds = <<>>
    /\ articles = <<>>
DiskIdle == file = None /\ file_mtime = 0 /\ loaded = None

FetchFeedWith_StampsWhenSkipping(u, resp) ==
    LET cvo == cache[u] IN
    IF SendsRequest(cvo)
    THEN /\ cache' = [cache EXCEPT ![u] = EntryAfter(cvo, resp)]
         /\ call' = [url |-> u, at |-> now, before |-> cache,
                     request |-> BuildRequest(cvo), resp |-> resp,
                     result |-> ResultAfter(u, cvo, resp)]
         /\ UNCHANGED <<now, etagVars, diskVars, runVars>>
    ELSE /\ call' = [url |-> u, at |-> now, before |-> cache, request |-> NoRequest,
                     resp |-> NoResponse, result |-> ResultWithoutRequest(cvo)]
         /\ cache' = [cache EXCEPT ![u] = Some([Unwrap(cvo) EXCEPT !.timestamp = now])]
         /\ UNCHANGED <<now, etagVars, diskVars, runVars>>

(* url.fetch_feed(&cache): one whole call, resp being the answer of the    *)
(* server if the call asks it.                                             *)
FetchFeedWith(u, resp) ==
    LET cvo == cache[u] IN
    IF SendsRequest(cvo)
    THEN /\ cache' = [cache EXCEPT ![u] = EntryAfter(cvo, resp)]
         /\ call' = [url |-> u, at |-> now, before |-> cache,
                     request |-> BuildRequest(cvo), resp |-> resp,
                     result |-> ResultAfter(u, cvo, resp)]
         /\ UNCHANGED <<now, etagVars, diskVars, runVars>>
    ELSE /\ call' = [url |-> u, at |-> now, before |-> cache, request |-> NoRequest,
                     resp |-> NoResponse, result |-> ResultWithoutRequest(cvo)]
         /\ UNCHANGED <<cache, now, etagVars, diskVars, runVars>>

(* fetch_feed against the servers of the universe. *)
fetch_feed(u) == \E resp \in Responses(u) : FetchFeedWith(u, resp)

(* Time passes between calls. *)
Tick ==
    /\ now < MaxTime
    /\ now' = now + 1
    /\ UNCHANGED <<cache, call, etagVars, diskVars, runVars>>

Init ==
    /\ cache = [u \in Urls |-> None]
    /\ now = 0
    /\ call = NoCall
    /\ EtagIdle
    /\ DiskIdle
    /\ RunIdle

Next ==
    \/ Tick
    \/ \E u \in Urls : fetch_feed(u)

Spec == Init /\ [][Next]_vars

(* ------------------------------------------------ the last fetch_feed call *)

Called == call.url # ""
(* The entry of the call's URL before the call, and after it. *)
EntryBefore == call.before[call.url]
EntryNow == cache[call.url]
Answered(st) == Called /\ call.request.sent /\ call.resp.kind = "http" /\ call.resp.status = st

(* C1: for a URL whose cache entry has retry_after set with              *)
(* timestamp + retry_after > now and a body, fetch_feed returns the result *)
(* of parsing the cached body and issues no network request.               *)
C1_OpenWindowServesCachedBody ==
    (/\ Called
     /\ IsSome(EntryBefore)
     /\ IsSome(Unwrap(EntryBefore).retry_after)
     /\ Unwrap(EntryBefore).timestamp
          + SpanTotal(Unwrap(Unwrap(EntryBefore).retry_after)) > call.at
     /\ IsSome(Unwrap(EntryBefore).body))
    => (/\ ~call.request.sent
        /\ call.result = parse(Unwrap(Unwrap(EntryBefore).body)))

(* C2: a 429 for a URL whose entry has a body returns the parsed cached    *)
(* body, and afterwards the entry has timestamp = now and retry_after set, *)
(* whether or not the response has a Retry-After header.                   *)
C2_TooManyRequestsServesCachedBody ==
    (Answered(429) /\ IsSome(EntryBefore) /\ IsSome(Unwrap(EntryBefore).body))
    => (/\ call.result = parse(Unwrap(Unwrap(EntryBefore).body))
        /\ Unwrap(EntryNow).timestamp = call.at
        /\ IsSome(Unwrap(EntryNow).retry_after))

(* C3: a 429 for a URL with no cached body (no entry, or an entry whose    *)
(* body is None) fails with RateLimitError.                                *)
C3_TooManyRequestsWithoutBodyIsRateLimitError ==
    (Answered(429) /\ (~IsSome(EntryBefore) \/ ~IsSome(Unwrap(EntryBefore).body)))
    => call.result = Err("RateLimitError", call.url, 0)

(* C4: on a 304 for a URL whose entry has a body, fetch_feed parses the    *)
(* cached body, not the payload of the 304, and the entry's body is the    *)
(* same after the call as before.                                          *)
C4_NotModifiedReusesCachedBody ==
    (Answered(304) /\ IsSome(EntryBefore) /\ IsSome(Unwrap(EntryBefore).body))
    => (/\ call.result = parse(Unwrap(Unwrap(EntryBefore).body))
        /\ IsSome(EntryNow)
        /\ Unwrap(EntryNow).body = Unwrap(EntryBefore).body)

(* A 304 whose (empty) payload was read, answered from a cached feed. *)
C4_Witness ==
    /\ Answered(304)
    /\ IsSome(EntryBefore)
    /\ Unwrap(EntryBefore).body = Some("A")
    /\ call.resp.body = Some("")
    /\ call.result.kind = "ok"
    /\ call.result.feed = "A"

EtagHeaderValues == UNION { [1..k -> EtagChars] : k \in 0..MaxEtagLen }

(* A 200 carrying the header reaches a URL without an entry: fetch_feed    *)
(* inserts the entry, and with it the etag it made of the header.          *)
StoreEtag ==
    /\ etag_stored = None
    /\ etag_stored' =
         Unwrap(EntryAfter(None, Http(200, Some(etag_header), None, None, Some("A")))).etag
    /\ UNCHANGED <<cache, now, call, etag_header, diskVars, runVars>>

InitEtag ==
    /\ cache = [u \in Urls |-> None]
    /\ now = 0
    /\ call = NoCall
    /\ etag_header \in EtagHeaderValues
    /\ etag_stored = None
    /\ DiskIdle
    /\ RunIdle

SpecEtag == InitEtag /\ [][StoreEtag]_vars

(* "..." and W/"...": an opening and a closing quote around a value. *)
IsQuoted(s) == Len(s) >= 2 /\ s[1] = DQ /\ s[Len(s)] = DQ
IsWeak(s) == Len(s) >= 4 /\ SubSeq(s, 1, 3) = <<"W", "/", DQ>> /\ s[Len(s)] = DQ

(* C8: the normalisation maps a to "a", leaves "a" and W/"a" unchanged;    *)
(* for every header value the stored etag has the form "..." or W/"...",   *)
(* and a quoted or weak value is stored as it came.                        *)
C8_StoredEtagIsQuotedOnce ==
    IsSome(etag_stored) =>
        /\ etag_header = <<"a">> => Unwrap(etag_stored) = <<DQ, "a", DQ>>
        /\ etag_header = <<DQ, "a", DQ>> => Unwrap(etag_stored) = <<DQ, "a", DQ>>
        /\ etag_header = <<"W", "/", DQ, "a", DQ>>
             => Unwrap(etag_stored) = <<"W", "/", DQ, "a", DQ>>
        /\ IsQuoted(Unwrap(etag_stored)) \/ IsWeak(Unwrap(etag_stored))
        /\ (IsQuoted(etag_header) \/ IsWeak(etag_header))
             => Unwrap(etag_stored) = etag_header

(* ------------------------------------------------ the cache file (cache.rs) *)

(* serde_json writes a Timestamp as its RFC 3339 text, a Span as its ISO   *)
(* 8601 duration (PT4H, PT1S: each unit with its own number), a String as  *)
(* a JSON string, and None as null.  A JSON value is a list of tokens.     *)
JsonNull == <<"null">>
FormatTimestamp(ts) == <<"string", "T", ts>>
FormatSpan(sp) == <<"string", "PT", sp.hours, "H", sp.seconds, "S">>
FormatString(str) == <<"string", str>>

ToJsonOption_NoneIsEmpty(o) ==
    IF IsSome(o) THEN FormatString(Unwrap(o)) ELSE FormatString("")

(* Option<String>: null or the string. *)
ToJsonOption(o) == IF IsSome(o) THEN FormatString(Unwrap(o)) ELSE JsonNull

(* #[derive(Serialize)] for CacheValue: one member per field. *)
ToJson(cv) ==
    [timestamp |-> FormatTimestamp(cv.timestamp),
     retry_after |-> IF IsSome(cv.retry_after)
                     THEN FormatSpan(Unwrap(cv.retry_after)) ELSE JsonNull,
     last_modified |-> ToJsonOption(cv.last_modified),
     etag |-> ToJsonOption(cv.etag),
     body |-> ToJsonOption(cv.body)]

(* #[derive(Deserialize)] for CacheValue. *)
FromJsonOption(j) == IF j = JsonNull THEN None ELSE Some(j[2])
FromJson(j) ==
    CacheValue(j.timestamp[3],
               IF j.retry_after = JsonNull THEN None
               ELSE Some([hours |-> j.retry_after[3], seconds |-> j.retry_after[5]]),
               FromJsonOption(j.last_modified),
               FromJsonOption(j.etag),
               FromJsonOption(j.body))

(* Url::as_str and Url::parse on a key of the JSON object. *)
UrlText(u) == <<"url", u>>
ParseUrl(k) == k[2]

(* serde_json::to_writer(w, self): the members of the JSON object. *)
Serialize(map) == { <<UrlText(u), ToJson(Unwrap(map[u]))>> : u \in {x \in Urls : IsSome(map[x])} }

(* serde_json::from_reader(r): the DashMap of the members. *)
Deserialize(text) ==
    [u \in Urls |->
        IF \E mb \in text : ParseUrl(mb[1]) = u
        THEN Some(FromJson((CHOOSE mb \in text : ParseUrl(mb[1]) = u)[2]))
        ELSE None]

(* Cache::store(path) *)
Store ==
    /\ file' = Some(Serialize(cache))
    /\ file_mtime' = now
    /\ UNCHANGED <<cache, now, call, etagVars, loaded, runVars>>

(* max_age_secs.min(MAX_SPAN_SEC as u64) *)
Clamp_CastsWithoutMin(max_age_secs) ==
    IF max_age_secs > MAX_SPAN_SEC THEN -1 ELSE max_age_secs

Clamp(max_age_secs) == IF max_age_secs > MAX_SPAN_SEC THEN MAX_SPAN_SEC ELSE max_age_secs

KeepsEntry_OrEqual(cv, current_ts, threshold) == current_ts - cv.timestamp <= threshold

(* (current_ts - v.timestamp).compare(threshold) == Less: the entry stays. *)
KeepsEntry(cv, current_ts, threshold) == current_ts - cv.timestamp < threshold

(* The map Cache::load returns for the text of a file. *)
LoadedMap(text, max_age_secs, current_ts) ==
    LET map == Deserialize(text) IN
    [u \in Urls |->
        IF IsSome(map[u]) /\ KeepsEntry(Unwrap(map[u]), current_ts, Clamp(max_age_secs))
        THEN map[u] ELSE None]

(* Cache::load(path, max_age_secs, now): Err when the file cannot be opened. *)
Load(max_age_secs) ==
    /\ loaded' = Some([max_age_secs |-> max_age_secs, now |-> now, ok |-> IsSome(file),
                       map |-> IF IsSome(file)
                               THEN LoadedMap(Unwrap(file), max_age_secs, now)
                               ELSE [u \in Urls |-> None]])
    /\ UNCHANGED <<cache, now, call, etagVars, file, file_mtime, runVars>>

(* The values of max_age_secs: 0, small ones, and one above MAX_SPAN_SEC. *)
MaxAges == (0 .. MaxTime + 1) \cup {MAX_SPAN_SEC + 1}

(* Cache values with each optional field present or absent. *)
StoredValues(u) ==
    IF u = "u1"
    THEN { CacheValue(ts, ra, lm, et, b) :
             ts \in 0..MaxTime,
             ra \in {None, Some(Seconds(1)), Some(Hours(DEFAULT_RETRY_HOURS))},
             lm \in {None, Some("lm1")},
             et \in {None, Some(<<DQ, "a", DQ>>)},
             b \in {None, Some(""), Some("A")} }
    ELSE { CacheValue(ts, None, None, None, Some("B")) : ts \in 0..MaxTime }

InitCache ==
    /\ cache \in { c \in [Urls -> {None} \cup UNION { {Some(v) : v \in StoredValues(u)} : u \in Urls }] :
                     \A u \in Urls : IsSome(c[u]) => Unwrap(c[u]) \in StoredValues(u) }
    /\ now \in 0..MaxTime
    /\ call = NoCall
    /\ EtagIdle
    /\ DiskIdle
    /\ RunIdle

NextCache ==
    \/ Store
    \/ \E max_age_secs \in MaxAges : Load(max_age_secs)

SpecCache == InitCache /\ [][NextCache]_vars

(* The last load read a file that store wrote. *)
LoadedStored == IsSome(loaded) /\ Unwrap(loaded).ok
(* now - timestamp of a stored entry at the last load. *)
AgeAtLoad(u) == Unwrap(loaded).now - Unwrap(cache[u]).timestamp

(* C6: store followed by load with a max_age that filters nothing yields a *)
(* mapping with the same keys and, for each key, the same value in every   *)
(* field, absent fields absent and present fields present.                 *)
C6_StoreLoadRoundTrip ==
    (/\ LoadedStored
     /\ \A u \in Urls : IsSome(cache[u]) => AgeAtLoad(u) < Unwrap(loaded).max_age_secs)
    => Unwrap(loaded).map = cache

(* A round trip of two entries, one with an empty body, a 4-hour span and  *)
(* no validators.                                                          *)
C6_Witness ==
    /\ LoadedStored
    /\ Unwrap(loaded).max_age_secs > MAX_SPAN_SEC
    /\ IsSome(cache["u1"]) /\ IsSome(cache["u2"])
    /\ Unwrap(cache["u1"]).body = Some("")
    /\ Unwrap(cache["u1"]).retry_after = Some(Hours(DEFAULT_RETRY_HOURS))
    /\ Unwrap(cache["u1"]).etag = None
    /\ Unwrap(loaded).map = cache

(* C7: load(path, M, now) returns exactly the stored entries with          *)
(* now - timestamp < M, for every M >= 0.                                  *)
C7_LoadKeepsYoungerThanMaxAge ==
    LoadedStored =>
        \A u \in Urls :
            Unwrap(loaded).map[u] =
                IF IsSome(cache[u]) /\ AgeAtLoad(u) < Unwrap(loaded).max_age_secs
                THEN cache[u] ELSE None

(* A load that drops an entry whose age equals M and keeps a younger one. *)
C7_Witness ==
    /\ LoadedStored
    /\ Unwrap(loaded).max_age_secs > 0
    /\ IsSome(cache["u1"]) /\ IsSome(cache["u2"])
    /\ AgeAtLoad("u1") = Unwrap(loaded).max_age_secs
    /\ AgeAtLoad("u2") < Unwrap(loaded).max_age_secs
    /\ Unwrap(loaded).map["u1"] = None
    /\ Unwrap(loaded).map["u2"] = cache["u2"]

(* ------------------------------------------------ the whole run (lib.rs) *)

(* The URLs of a run: u3 is a third source. *)
RunUrls == Urls \cup {"u3"}
NoEntries == [u \in RunUrls |-> None]

(* A DashMap keeps its entries in shards, each behind one lock: u1 and u2  *)
(* hash to the same shard, u3 to another.                                  *)
ShardOf(u) == IF u = "u3" THEN "s2" ELSE "s1"

(* --max-cache-age, default "14d", in hours. *)
MAX_CACHE_AGE == 336

(* The lists of URLs given with -s: none, three sources, one source twice. *)
RunUrlLists == { <<>>, <<"u1", "u2", "u3">>, <<"u2", "u2">> }

(* The CSV record store writes for an entry: an absent field and an empty  *)
(* string are both the empty field.                                        *)
CsvTimestamp(ts) == <<"T", ts>>
CsvSpan(sp) == <<"PT", sp.hours, "H", sp.seconds, "S">>
CsvOptionSpan(o) == IF IsSome(o) THEN CsvSpan(Unwrap(o)) ELSE <<>>
CsvOptionString(o) == IF IsSome(o) /\ Unwrap(o) # "" THEN <<Unwrap(o)>> ELSE <<>>
CsvOptionEtag(o) == IF IsSome(o) /\ Unwrap(o) # <<>> THEN <<Unwrap(o)>> ELSE <<>>
CsvRecord(u, cv) ==
    <<UrlText(u), CsvTimestamp(cv.timestamp), CsvOptionSpan(cv.retry_after),
      CsvOptionString(cv.last_modified), CsvOptionEtag(cv.etag), CsvOptionString(cv.body)>>
FromCsvField(f) == IF f = <<>> THEN None ELSE Some(f[1])
FromCsvRecord(r) ==
    CacheValue(r[2][2],
               IF r[3] = <<>> THEN None ELSE Some([hours |-> r[3][2], seconds |-> r[3][4]]),
               FromCsvField(r[4]), FromCsvField(r[5]), FromCsvField(r[6]))

(* store of lib.rs: one record per entry. *)
CsvStore(map) == { CsvRecord(u, Unwrap(map[u])) : u \in {x \in RunUrls : IsSome(map[x])} }

(* load of lib.rs: the records younger than max_age_secs. *)
CsvLoad(records, max_age_secs, current_ts) ==
    [u \in RunUrls |->
        IF \E r \in records :
              ParseUrl(r[1]) = u /\ current_ts - FromCsvRecord(r).timestamp < max_age_secs
        THEN Some(FromCsvRecord(CHOOSE r \in records : ParseUrl(r[1]) = u))
        ELSE None]

(* load_cache(&args): None without --cache, without a file, with a file    *)
(* whose modification time lies ahead of the clock (elapsed() fails), or   *)
(* with a file older than max_cache_age.                                   *)
load_cache_IgnoresFlag(a) ==
    IF ~IsSome(file) THEN None
    ELSE Some(CsvLoad(Unwrap(file), a.max_cache_age, now))

load_cache(a) ==
    IF ~a.cache THEN None
    ELSE IF ~IsSome(file) THEN None
    ELSE IF file_mtime > now THEN None
    ELSE IF now - file_mtime > a.max_cache_age THEN None
    ELSE Some(CsvLoad(Unwrap(file), a.max_cache_age, now))

(* ureq answers Ok below 400, Err(Status) from 400 on, Err(Transport) else. *)
UreqOk(resp) == resp.kind = "http" /\ resp.status < 400

(* What the servers behind the three sources can answer. *)
RunResponses(u) ==
    IF u = "u1"
    THEN { Http(200, Some(<<"a">>), Some("lm1"), None, Some("A")),
           Http(200, None, None, None, Some("X")),
           Http(200, None, None, None, None),
           TransportError }
    ELSE IF u = "u2"
    THEN { Http(NOT_MODIFIED, None, None, None, Some("")),
           Http(200, Some(<<"W", "/", DQ, "a", DQ>>), None, None, Some("B")),
           Http(TOO_MANY_REQUESTS, None, None, None, Some("")),
           Http(TOO_MANY_REQUESTS, None, None, Some(TextHeader), Some("")),
           Http(TOO_MANY_REQUESTS, None, None, Some(IntHeader(1)), Some("")),
           Http(TOO_MANY_REQUESTS, None, None, Some(IntHeader(MAX_SPAN_SEC + 1)), Some("")),
           Http(500, None, None, None, Some("")) }
    ELSE { Http(500, None, None, None, Some("")),
           Http(200, None, None, None, Some("A")),
           Http(TOO_MANY_REQUESTS, None, None, None, Some("")) }

(* The retry window of the closure: open, or its check panics. *)
TaskWindowPanics(cvo) ==
    /\ IsSome(cvo)
    /\ IsSome(Unwrap(cvo).retry_after)
    /\ TimestampAddOverflows(Unwrap(cvo).timestamp, SpanTotal(Unwrap(Unwrap(cvo).retry_after)))
TaskWindowOpen(cvo) ==
    /\ IsSome(cvo)
    /\ IsSome(Unwrap(cvo).retry_after)
    /\ Unwrap(cvo).timestamp + SpanTotal(Unwrap(Unwrap(cvo).retry_after)) > now

TaskBodyAfterOk_Payload(cvo, resp) == resp.body

(* Ok(r): the body the closure goes on with. *)
TaskBodyAfterOk(cvo, resp) ==
    IF IsSome(cvo) /\ resp.status = NOT_MODIFIED THEN Unwrap(cvo).body ELSE resp.body

(* Ok(r): the entry of the URL afterwards. *)
TaskEntryAfterOk(cvo, resp) ==
    IF IsSome(cvo)
    THEN IF resp.status = NOT_MODIFIED
         THEN Some([Unwrap(cvo) EXCEPT !.timestamp = now])
         ELSE Some([Unwrap(cvo) EXCEPT !.etag = EtagOf(resp),
                                       !.last_modified = resp.last_modified,
                                       !.body = resp.body,
                                       !.timestamp = now])
    ELSE Some(CacheValue(now, None, resp.last_modified, EtagOf(resp), resp.body))

TaskIs429(resp) == resp.kind = "http" /\ resp.status = TOO_MANY_REQUESTS

(* r.header("retry-after").map(|s| s.parse::<i64>().map(|n| n.seconds()).ok()) *)
(*   .unwrap_or(Some(4.hours())): n.seconds() panics out of range.         *)
TaskRetryAfterPanics(resp) ==
    /\ IsSome(resp.retry_after)
    /\ Unwrap(resp.retry_after).int
    /\ ~SpanInRange(Unwrap(resp.retry_after).n)
TaskRetryAfter(resp) ==
    IF IsSome(resp.retry_after)
    THEN IF Unwrap(resp.retry_after).int
         THEN Some(Seconds(Unwrap(resp.retry_after).n))
         ELSE None
    ELSE Some(Hours(DEFAULT_RETRY_HOURS))

(* Err(e): the closure panics, with the URL's entry at hand. *)
TaskErrPanics(cvo, resp) == IsSome(cvo) /\ TaskIs429(resp) /\ TaskRetryAfterPanics(resp)

(* Err(e): the entry of the URL afterwards. *)
TaskEntryAfterErr(cvo, resp) ==
    IF ~IsSome(cvo) THEN cvo
    ELSE IF TaskIs429(resp) /\ ~TaskRetryAfterPanics(resp)
    THEN Some([Unwrap(cvo) EXCEPT !.timestamp = now, !.retry_after = TaskRetryAfter(resp)])
    ELSE Some([Unwrap(cvo) EXCEPT !.timestamp = now])

(* Err(e): the body the closure goes on with. *)
TaskBodyAfterErr(cvo, resp) ==
    IF IsSome(cvo) /\ TaskIs429(resp) THEN Unwrap(cvo).body ELSE None

(* One unit of work: where it stands, whether it holds the guard of        *)
(* cache.get_mut(url), the answer it got, and what it yields.              *)
NewTask == [pc |-> "start", held |-> FALSE, resp |-> NoResponse, outcome |-> "none", feed |-> ""]

(* The end of the closure: Some((feed, url)) or None. *)
TaskDone(tk, resp, body) ==
    IF IsSome(body) /\ parse(Unwrap(body)).kind = "ok"
    THEN [tk EXCEPT !.pc = "done", !.held = FALSE, !.resp = resp, !.outcome = "ok",
                    !.feed = parse(Unwrap(body)).feed]
    ELSE [tk EXCEPT !.pc = "done", !.held = FALSE, !.resp = resp, !.outcome = "fail"]
TaskPanicked(tk, resp) == [tk EXCEPT !.pc = "panicked", !.held = FALSE, !.resp = resp]

ShardBusy_Never(s) == FALSE

(* A unit of work holds the lock of the shard across its request. *)
ShardBusy(s) ==
    \E j \in DOMAIN task : task[j].pc = "sent" /\ task[j].held /\ ShardOf(args.url[j]) = s

FeedsOf_KeepsFailures(tasks, urls) == [i \in 1..Len(urls) |-> <<tasks[i].feed, urls[i]>>]

(* What collect() makes of the closures' values, in the order of the URLs. *)
FeedsOf(tasks, urls) ==
    LET Yields(i) == tasks[i].outcome = "ok"
        idx == SelectSeq([i \in 1..Len(urls) |-> i], Yields)
    IN [k \in 1..Len(idx) |-> <<tasks[idx[k]].feed, urls[idx[k]]>>]

(* run: load_cache(&args).unwrap_or_default(), the URLs, FeedMissing. *)
RunBegin ==
    /\ run.pc = "start"
    /\ LET c == IF IsSome(load_cache(args)) THEN Unwrap(load_cache(args)) ELSE NoEntries IN
         /\ cache' = c
         /\ start_cache' = c
    /\ IF args.url = <<>>
       THEN run' = [run EXCEPT !.pc = "error", !.error = "FeedMissing"] /\ task' = task
       ELSE run' = [run EXCEPT !.pc = "fetching", !.started = now] /\ task' = [i \in 1..Len(args.url) |-> NewTask]
    /\ UNCHANGED <<now, call, etagVars, diskVars, args, feeds, articles>>

(* The closure from cache.get_mut(url) to req.call(): served from the      *)
(* cache inside the retry window, else the request goes out with the guard *)
(* of an existing entry held.                                              *)
TaskBegin(i) ==
    /\ run.pc = "fetching"
    /\ task[i].pc = "start"
    /\ ~ShardBusy(ShardOf(args.url[i]))
    /\ LET cvo == cache[args.url[i]] IN
         task' = [task EXCEPT ![i] =
                    IF TaskWindowPanics(cvo) THEN TaskPanicked(@, NoResponse)
                    ELSE IF TaskWindowOpen(cvo) THEN TaskDone(@, NoResponse, Unwrap(cvo).body)
                    ELSE [@ EXCEPT !.pc = "sent", !.held = IsSome(cvo)]]
    /\ UNCHANGED <<cache, now, call, etagVars, diskVars, args, run, start_cache, feeds, articles>>

(* The closure from the answer of req.call() to its end. *)
TaskRespond(i) ==
    /\ run.pc = "fetching"
    /\ task[i].pc = "sent"
    /\ \E resp \in RunResponses(args.url[i]) :
         LET u == args.url[i]
             cvo == IF task[i].held THEN cache[u] ELSE None
         IN IF UreqOk(resp)
            THEN /\ task[i].held \/ ~ShardBusy(ShardOf(u))
                 /\ cache' = [cache EXCEPT ![u] = TaskEntryAfterOk(cvo, resp)]
                 /\ task' = [task EXCEPT ![i] = TaskDone(@, resp, TaskBodyAfterOk(cvo, resp))]
            ELSE /\ cache' = IF task[i].held
                             THEN [cache EXCEPT ![u] = TaskEntryAfterErr(cvo, resp)]
                             ELSE cache
                 /\ task' = [task EXCEPT ![i] =
                               IF TaskErrPanics(cvo, resp) THEN TaskPanicked(@, resp)
                               ELSE TaskDone(@, resp, TaskBodyAfterErr(cvo, resp))]
    /\ UNCHANGED <<now, call, etagVars, diskVars, args, run, start_cache, feeds, articles>>

AllDone == \A j \in DOMAIN task : task[j].pc = "done"
SomePanicked == \E j \in DOMAIN task : task[j].pc = "panicked"

(* get_feeds_from_urls returns Ok(feeds). *)
Collect ==
    /\ run.pc = "fetching"
    /\ AllDone
    /\ feeds' = FeedsOf(task, args.url)
    /\ run' = [run EXCEPT !.pc = "fetched"]
    /\ UNCHANGED <<cache, now, call, etagVars, diskVars, args, start_cache, task, articles>>

(* m.clear()? fails: get_feeds_from_urls returns the I/O error. *)
ClearFails ==
    /\ run.pc = "fetching"
    /\ AllDone
    /\ run' = [run EXCEPT !.pc = "error", !.error = "IoError"]
    /\ UNCHANGED <<cache, now, call, etagVars, diskVars, args, start_cache, task, feeds, articles>>

(* A closure panicked: once no request is in flight the panic resumes in   *)
(* the caller, and run() never returns.                                    *)
Unwind ==
    /\ run.pc = "fetching"
    /\ SomePanicked
    /\ \A j \in DOMAIN task : task[j].pc # "sent"
    /\ run' = [run EXCEPT !.pc = "panicked"]
    /\ UNCHANGED <<cache, now, call, etagVars, diskVars, args, start_cache, task, feeds, articles>>

StoreCache_OnlyListed ==
    /\ run.pc = "fetched"
    /\ IF args.cache
       THEN /\ file' = Some({ r \in CsvStore(cache) :
                                \E i \in DOMAIN args.url : args.url[i] = ParseUrl(r[1]) })
            /\ file_mtime' = now
            /\ run' = [run EXCEPT !.pc = "stored", !.writes = @ + 1]
       ELSE /\ UNCHANGED <<file, file_mtime>>
            /\ run' = [run EXCEPT !.pc = "stored"]
    /\ UNCHANGED <<cache, now, call, etagVars, loaded, args, start_cache, task, feeds, articles>>

(* if args.cache { cache.store(OPENRING_CACHE_FILE)?; } *)
StoreCache ==
    /\ run.pc = "fetched"
    /\ IF args.cache
       THEN /\ file' = Some(CsvStore(cache))
            /\ file_mtime' = now
            /\ run' = [run EXCEPT !.pc = "stored", !.writes = @ + 1]
       ELSE /\ UNCHANGED <<file, file_mtime>>
            /\ run' = [run EXCEPT !.pc = "stored"]
    /\ UNCHANGED <<cache, now, call, etagVars, loaded, args, start_cache, task, feeds, articles>>

(* cache.store fails: the file cannot be created, or is left with some of  *)
(* the records; run() returns the error of the csv writer.                 *)
StoreFails ==
    /\ run.pc = "fetched"
    /\ args.cache
    /\ \/ /\ UNCHANGED <<file, file_mtime>>
          /\ run' = [run EXCEPT !.pc = "error", !.error = "CsvError"]
       \/ \E records \in SUBSET CsvStore(cache) :
            /\ file' = Some(records)
            /\ file_mtime' = now
            /\ run' = [run EXCEPT !.pc = "error", !.error = "CsvError", !.writes = @ + 1]
    /\ UNCHANGED <<cache, now, call, etagVars, loaded, args, start_cache, task, feeds, articles>>

(* ---------------------------------------------- the article list (lib.rs) *)

(* An entry of a parsed feed: whether it has any link, whether it has the  *)
(* link, title and date an article needs, and its date.                    *)
FeedEntry(ts) == [links |-> TRUE, complete |-> TRUE, timestamp |-> ts]

(* The parsed feeds.  A and B are what the bodies "A" and "B" parse to; C  *)
(* has no entries, D no title, E an entry without links, F no link of its  *)
(* own.  The entries of B are not in date order, and its second entry has *)
(* no date.                                                                *)
ParsedFeeds == {"A", "B", "C", "D", "E", "F"}
FeedContent(f) ==
    [titled |-> f # "D",
     linked |-> f # "F",
     entries |-> IF f = "A" THEN <<FeedEntry(3), FeedEntry(1)>>
                 ELSE IF f = "B"
                 THEN <<FeedEntry(2), [FeedEntry(0) EXCEPT !.complete = FALSE], FeedEntry(3)>>
                 ELSE IF f = "E"
                 THEN <<FeedEntry(4), [links |-> FALSE, complete |-> FALSE, timestamp |-> 0]>>
                 ELSE IF f \in {"D", "F"} THEN <<FeedEntry(1)>>
                 ELSE <<>>]

Article(url, k, e) == [link |-> <<url, k>>, source_link |-> url, timestamp |-> e.timestamp]

(* for entry in entries.iter(): the articles pushed from entry k on, or     *)
(* FeedBadTitle at an entry without links; articles after args.before, if  *)
(* present, are skipped.                                                   *)
RECURSIVE EntryArticles(_, _, _, _)
EntryArticles(entries, k, url, a) ==
    IF k > Len(entries) THEN [kind |-> "ok", list |-> <<>>]
    ELSE IF ~entries[k].links THEN [kind |-> "FeedBadTitle", list |-> <<>>]
    ELSE LET rest == EntryArticles(entries, k + 1, url, a)
             after == IsSome(a.before) /\ entries[k].timestamp > Unwrap(a.before)
         IN
         IF rest.kind # "ok" THEN rest
         ELSE IF entries[k].complete /\ ~after
         THEN [kind |-> "ok", list |-> <<Article(url, k, entries[k])>> \o rest.list]
         ELSE rest

(* for (feed, url) in feeds: the articles of the feeds from position i on, *)
(* out of &feed.entries[0..args.per_source] or of all entries when there   *)
(* are fewer;                                                              *)
(* feed.title.as_ref().unwrap() panics on a feed without title, a feed     *)
(* without a link of its own is FeedBadTitle.                              *)
RECURSIVE FeedArticles(_, _, _)
FeedArticles(pairs, i, a) ==
    IF i > Len(pairs) THEN [kind |-> "ok", list |-> <<>>]
    ELSE LET feed == FeedContent(pairs[i][1])
             taken == IF Len(feed.entries) >= a.per_source
                      THEN SubSeq(feed.entries, 1, a.per_source) ELSE feed.entries
             mine == EntryArticles(taken, 1, pairs[i][2], a)
         IN IF ~feed.titled THEN [kind |-> "panic", list |-> <<>>]
            ELSE IF ~feed.linked THEN [kind |-> "FeedBadTitle", list |-> <<>>]
            ELSE IF mine.kind # "ok" THEN mine
            ELSE LET rest == FeedArticles(pairs, i + 1, a) IN
                 IF rest.kind # "ok" THEN rest
                 ELSE [kind |-> "ok", list |-> mine.list \o rest.list]

(* articles.sort_unstable_by(|a, b| a.timestamp.cmp(&b.timestamp).reverse()): *)
(* one fixed rearrangement of the list in descending date order; which one  *)
(* among equal dates is left to the sort.                                  *)
SortDesc(list) ==
    IF list = <<>> THEN <<>>
    ELSE LET n == Len(list)
             p == CHOOSE f \in Permutations(1..n) :
                    \A i \in 1..(n - 1) : list[f[i]].timestamp >= list[f[i + 1]].timestamp
         IN [i \in 1..n |-> list[p[i]]]

Truncate_KeepsAll(list, n) == list

(* &articles[0..args.num_articles], or all of them when there are fewer. *)
Truncate(list, n) == IF Len(list) >= n THEN SubSeq(list, 1, n) ELSE list

(* fs::read_to_string(&args.template_file)? fails. *)
ReadTemplateFails ==
    /\ run.pc = "stored"
    /\ run' = [run EXCEPT !.pc = "error", !.error = "IoError"]
    /\ UNCHANGED <<cache, now, call, etagVars, diskVars, args, start_cache, task, feeds, articles>>

(* run from the template read to context.insert("articles", articles). *)
BuildArticles ==
    /\ run.pc = "stored"
    /\ LET all == FeedArticles(feeds, 1, args) IN
         IF all.kind = "ok"
         THEN /\ articles' = Truncate(SortDesc(all.list), args.num_articles)
              /\ run' = [run EXCEPT !.pc = "built"]
         ELSE /\ articles' = articles
              /\ run' = IF all.kind = "panic" THEN [run EXCEPT !.pc = "panicked"]
                        ELSE [run EXCEPT !.pc = "error", !.error = all.kind]
    /\ UNCHANGED <<cache, now, call, etagVars, diskVars, args, start_cache, task, feeds>>

(* Tera::one_off(&template, &context, true)? fails. *)
TeraFails ==
    /\ run.pc = "built"
    /\ run' = [run EXCEPT !.pc = "error", !.error = "TemplateError"]
    /\ UNCHANGED <<cache, now, call, etagVars, diskVars, args, start_cache, task, feeds, articles>>

(* println!("{output}"); Ok(()) *)
Output ==
    /\ run.pc = "built"
    /\ run' = [run EXCEPT !.pc = "done"]
    /\ UNCHANGED <<cache, now, call, etagVars, diskVars, args, start_cache, task, feeds, articles>>

(* Entries earlier runs left in the cache file: one a 200 stored, and one  *)
(* a later 429 with "Retry-After: 1" marked.                               *)
SeedFresh == CacheValue(0, None, Some("lm1"), Some(<<DQ, "a", DQ>>), Some("A"))
SeedLimited == CacheValue(0, Some(Seconds(1)), None, None, Some("A"))
SeedEntries(u) ==
    IF u = "u2" THEN {None, Some(SeedFresh), Some(SeedLimited)} ELSE {None, Some(SeedFresh)}
SeedCaches ==
    { [u \in RunUrls |-> IF u = "u1" THEN c1 ELSE IF u = "u2" THEN c2 ELSE c3] :
        c1 \in SeedEntries("u1"), c2 \in SeedEntries("u2"), c3 \in SeedEntries("u3") }

InitRun ==
    /\ cache = NoEntries
    /\ now = 0
    /\ call = NoCall
    /\ EtagIdle
    /\ file \in {None} \cup { Some(CsvStore(c)) : c \in SeedCaches }
    /\ file_mtime = 0
    /\ loaded = None
    /\ args \in [url : RunUrlLists, cache : BOOLEAN, max_cache_age : {MAX_CACHE_AGE},
                 num_articles : {NUM_ARTICLES_DEFAULT}, per_source : {PER_SOURCE_DEFAULT},
                 before : {None}]
    /\ run = [pc |-> "start", error |-> "", writes |-> 0, started |-> 0]
    /\ start_cache = NoEntries
    /\ task = <<>>
    /\ feeds = <<>>
    /\ articles = <<>>

NextRun ==
    \/ Tick
    \/ RunBegin
    \/ \E i \in DOMAIN task : TaskBegin(i)
    \/ \E i \in DOMAIN task : TaskRespond(i)
    \/ Collect
    \/ ClearFails
    \/ Unwind
    \/ StoreCache
    \/ StoreFails
    \/ ReadTemplateFails
    \/ BuildArticles
    \/ TeraFails
    \/ Output

SpecRun == InitRun /\ [][NextRun]_vars

(* The run with its scheduling: rayon runs every closure it has taken to   *)
(* its end, every request returns or times out after 10 s (the agent's     *)
(* timeout), and collect() returns once the closures have ended.           *)
SpecRunFair ==
    /\ SpecRun
    /\ \A i \in 1..3 : /\ WF_vars(i \in DOMAIN task /\ TaskBegin(i))
                        /\ WF_vars(i \in DOMAIN task /\ TaskRespond(i))
    /\ WF_vars(Collect \/ ClearFails)
    /\ WF_vars(Unwind)

(* --------------------------------------------------- claims about the run *)

(* The unit of work at position i got this status from its server. *)
TaskAnswered(i, st) == task[i].resp.kind = "http" /\ task[i].resp.status = st
HasValidBody(cvo) ==
    IsSome(cvo) /\ IsSome(Unwrap(cvo).body) /\ Unwrap(Unwrap(cvo).body) \in ValidFeeds

(* Three distinct URLs with caching on: position a answers 200 with a      *)
(* valid feed, b answers 304 and has a pre-seeded entry with a valid body, *)
(* c answers 500 and has no prior entry.                                   *)
ThreeUrlScenario(a, b, c) ==
    /\ args.cache
    /\ Len(args.url) = 3
    /\ {a, b, c} = 1..3
    /\ Cardinality({args.url[i] : i \in 1..3}) = 3
    /\ run.pc \in {"fetched", "stored"}
    /\ TaskAnswered(a, 200)
    /\ IsSome(task[a].resp.body) /\ Unwrap(task[a].resp.body) \in ValidFeeds
    /\ TaskAnswered(b, NOT_MODIFIED)
    /\ HasValidBody(start_cache[args.url[b]])
    /\ TaskAnswered(c, 500)
    /\ start_cache[args.url[c]] = None

(* C9: in a run over three URLs, one answering 200 with a valid feed, one  *)
(* answering 304 with a pre-seeded entry that has a valid body, one        *)
(* answering 500 with no prior entry, get_feeds_from_urls returns exactly  *)
(* the two (feed, url) pairs of the first two, one source fails, and the   *)
(* cache file written at the end holds exactly two entries.                *)
C9_ThreeUrlRun ==
    \A a \in DOMAIN task, b \in DOMAIN task, c \in DOMAIN task :
        ThreeUrlScenario(a, b, c) =>
            /\ Len(feeds) = 2
            /\ {feeds[k] : k \in 1..2} =
                 { <<Unwrap(task[a].resp.body), args.url[a]>>,
                   <<Unwrap(Unwrap(start_cache[args.url[b]]).body), args.url[b]>> }
            /\ {i \in DOMAIN task : task[i].outcome = "fail"} = {c}
            /\ run.pc = "stored" =>
                 /\ IsSome(file)
                 /\ Cardinality(Unwrap(file)) = 2
                 /\ {ParseUrl(r[1]) : r \in Unwrap(file)} = {args.url[a], args.url[b]}

C9_Witness ==
    /\ ThreeUrlScenario(1, 2, 3)
    /\ run.pc = "stored"
    /\ Len(feeds) = 2
    /\ Cardinality(Unwrap(file)) = 2

(* C10: every URL of the input yields exactly one outcome, the returned    *)
(* list holds a pair exactly for the URLs whose fetch and parse succeeded, *)
(* and the failure of one URL never makes get_feeds_from_urls fail or      *)
(* keeps another URL from being fetched and returned.                      *)
C10_FailuresAreIsolated ==
    /\ run.pc # "panicked"
    /\ \A i \in DOMAIN task : task[i].pc # "panicked"
    /\ run.pc \in {"fetched", "stored"} =>
         /\ \A i \in DOMAIN task : task[i].outcome \in {"ok", "fail"}
         /\ feeds = FeedsOf(task, args.url)

(* C11: the cache file is written at most once per run, only with caching  *)
(* enabled and only after every fetch unit has completed; no unit touches  *)
(* the store or changes afterwards; with caching disabled the file is      *)
(* neither read (the run starts from an empty store whatever the file      *)
(* holds) nor written.                                                     *)
C11_StoreOnceAfterAllUnits ==
    [][ /\ (run'.writes # run.writes \/ file' # file \/ file_mtime' # file_mtime) =>
             /\ args.cache
             /\ run.pc = "fetched"
             /\ AllDone
             /\ run.writes = 0 /\ run'.writes = 1
             /\ run'.pc \in {"stored", "error"}
        /\ run.writes > 0 => cache' = cache /\ task' = task
        /\ ~args.cache =>
             /\ run'.writes = 0
             /\ run.pc = "start" => cache' = NoEntries /\ start_cache' = NoEntries
      ]_vars

C11_Witness ==
    /\ run.pc = "stored"
    /\ args.cache
    /\ run.writes = 1
    /\ Len(args.url) = 3
    /\ AllDone
    /\ file = Some(CsvStore(cache))
    /\ cache # start_cache

(* ------------------------------------------------- load_cache (cache.rs) *)

(* serde_json reads the text of a cache file that store wrote. *)
WellFormed(text) == \A mb \in text : Len(mb) = 2

LoadCacheResult_ReversedAge(a) ==
    IF ~a.cache \/ ~IsSome(file) THEN None
    ELSE IF file_mtime > now \/ a.max_cache_age > now - file_mtime THEN None
    ELSE IF ~WellFormed(Unwrap(file)) THEN None
    ELSE Some(LoadedMap(Unwrap(file), a.max_cache_age, now))

LoadCacheResult_ReadsWhatIsThere(a) ==
    IF ~a.cache \/ ~IsSome(file) THEN None
    ELSE IF file_mtime > now \/ now - file_mtime > a.max_cache_age THEN None
    ELSE Some(LoadedMap({mb \in Unwrap(file) : Len(mb) = 2}, a.max_cache_age, now))

LoadCacheResult_CorruptIsEmpty(a) ==
    IF ~a.cache \/ ~IsSome(file) THEN None
    ELSE IF file_mtime > now \/ now - file_mtime > a.max_cache_age THEN None
    ELSE IF ~WellFormed(Unwrap(file)) THEN Some([u \in Urls |-> None])
    ELSE Some(LoadedMap(Unwrap(file), a.max_cache_age, now))

(* load_cache(&args) of cache.rs: None without --cache, without a file,    *)
(* when modified.elapsed() fails (the modification time lies ahead of the  *)
(* clock), when the file is older than max_cache_age, and when Cache::load *)
(* fails.                                                                  *)
LoadCacheResult(a) ==
    IF ~a.cache THEN None
    ELSE IF ~IsSome(file) THEN None
    ELSE IF file_mtime > now THEN None
    ELSE IF now - file_mtime > a.max_cache_age THEN None
    ELSE IF ~WellFormed(Unwrap(file)) THEN None
    ELSE Some(LoadedMap(Unwrap(file), a.max_cache_age, now))

(* One call of load_cache, with what it returned. *)
LoadCache ==
    /\ loaded' = Some([max_age_secs |-> args.max_cache_age, now |-> now,
                       ok |-> IsSome(LoadCacheResult(args)),
                       map |-> IF IsSome(LoadCacheResult(args))
                               THEN Unwrap(LoadCacheResult(args))
                               ELSE [u \in Urls |-> None]])
    /\ UNCHANGED <<cache, now, call, etagVars, file, file_mtime, runVars>>

(* --cache and --max-cache-age as load_cache sees them. *)
LoadCacheArgs ==
    { [NoArgs EXCEPT !.cache = c, !.max_cache_age = m] :
        c \in BOOLEAN, m \in (0 .. MaxTime + 1) \cup {MAX_CACHE_AGE} }

(* The cache file is missing, is not JSON, or holds a store. *)
InitLoadCache ==
    /\ cache = [u \in Urls |-> None]
    /\ now \in 0..MaxTime
    /\ call = NoCall
    /\ EtagIdle
    /\ file \in {None, Some({ <<"{">> })}
               \cup { Some(Serialize([u \in Urls |-> IF u = "u1" THEN c1 ELSE c2])) :
                        c1 \in {None} \cup {Some(v) : v \in StoredValues("u1")},
                        c2 \in {None} \cup {Some(v) : v \in StoredValues("u2")} }
    /\ file_mtime \in 0..MaxTime
    /\ loaded = None
    /\ args \in LoadCacheArgs
    /\ run = NotRunning
    /\ start_cache = <<>>
    /\ task = <<>>
    /\ feeds = <<>>
    /\ articles = <<>>

NextLoadCache == Tick \/ LoadCache

SpecLoadCache == InitLoadCache /\ [][NextLoadCache]_vars

(* The entries of the file that pass the age filter of the last call. *)
FreshEntries ==
    [u \in Urls |->
        IF IsSome(Deserialize(Unwrap(file))[u])
           /\ Unwrap(loaded).now - Unwrap(Deserialize(Unwrap(file))[u]).timestamp
                < args.max_cache_age
        THEN Deserialize(Unwrap(file))[u] ELSE None]

(* The cases the claim lists for None. *)
ListedNoneCase ==
    \/ ~args.cache
    \/ ~IsSome(file)
    \/ Unwrap(loaded).now - file_mtime > args.max_cache_age
    \/ ~WellFormed(Unwrap(file))

(* C12: load_cache returns None when caching is disabled, when there is no *)
(* file, when the file's modification age exceeds max_cache_age, and when  *)
(* the file cannot be read or deserialized; in every other case it returns *)
(* exactly the stored entries that pass the age filter.                    *)
C12_NoneOnlyInListedCases ==
    IsSome(loaded) =>
        IF ListedNoneCase
        THEN ~Unwrap(loaded).ok
        ELSE Unwrap(loaded).ok /\ Unwrap(loaded).map = FreshEntries

(* C12, amended: None is also what a file gets whose modification time     *)
(* lies ahead of the clock.                                                *)
C12_NoneAlsoForFutureMtime ==
    IsSome(loaded) =>
        IF ListedNoneCase \/ file_mtime > Unwrap(loaded).now
        THEN ~Unwrap(loaded).ok
        ELSE Unwrap(loaded).ok /\ Unwrap(loaded).map = FreshEntries

C12_Witness ==
    /\ IsSome(loaded)
    /\ args.cache
    /\ Unwrap(loaded).ok
    /\ IsSome(Deserialize(Unwrap(file))["u1"])
    /\ Unwrap(loaded).map["u1"] = None
    /\ IsSome(Unwrap(loaded).map["u2"])

(* --------------------------------------------- more claims about the run *)

(* C13: a failure to write the cache file at the end of a run is absorbed: *)
(* run does not return an error because of it.                             *)
C13_StoreFailureIsAbsorbed == ~(run.pc = "error" /\ run.error = "CsvError")

(* C14: each distinct URL of the list is processed by exactly one fetch    *)
(* unit, so no cache entry is read and written by two units of one run.    *)
C14_OneUnitPerUrl ==
    \A i \in DOMAIN task, j \in DOMAIN task :
        (i # j /\ args.url[i] = args.url[j]) => ~(task[i].pc # "start" /\ task[j].pc # "start")

(* ------------------------------- runs that share the cache file (cache.rs) *)

(* A run starts: load_cache(&args).unwrap_or_default(). *)
SessionStart(a) ==
    /\ loaded = None
    /\ args' = a
    /\ cache' = IF IsSome(LoadCacheResult(a)) THEN Unwrap(LoadCacheResult(a))
                ELSE [u \in Urls |-> None]
    /\ loaded' = Some([max_age_secs |-> a.max_cache_age, now |-> now,
                       ok |-> IsSome(LoadCacheResult(a)),
                       map |-> IF IsSome(LoadCacheResult(a))
                               THEN Unwrap(LoadCacheResult(a))
                               ELSE [u \in Urls |-> None]])
    /\ call' = NoCall
    /\ UNCHANGED <<now, etagVars, file, file_mtime, run, start_cache, task, feeds, articles>>

(* The run fetches a feed, with what the servers answer from one run to    *)
(* the next.                                                               *)
SessionFetch(u) ==
    /\ IsSome(loaded)
    /\ \E resp \in IF u = "u1"
                     THEN { Http(200, None, None, None, Some("A")),
                            Http(200, None, None, None, None),
                            Http(NOT_MODIFIED, None, None, None, Some("")),
                            Http(TOO_MANY_REQUESTS, None, None, None, Some("")),
                            Http(TOO_MANY_REQUESTS, None, None, Some(IntHeader(1)), Some("")),
                            Http(500, None, None, None, Some("")) }
                     ELSE { Http(200, None, None, None, Some("B")) } :
          FetchFeedWith(u, resp)

(* The run ends: cache.store(OPENRING_CACHE_FILE), and the process exits. *)
SessionEnd ==
    /\ IsSome(loaded)
    /\ file' = Some(Serialize(cache))
    /\ file_mtime' = now
    /\ loaded' = None
    /\ cache' = [u \in Urls |-> None]
    /\ call' = NoCall
    /\ UNCHANGED <<now, etagVars, runVars>>

NextSessions ==
    \/ Tick
    \/ \E a \in {x \in LoadCacheArgs : x.cache} : SessionStart(a)
    \/ \E u \in Urls : SessionFetch(u)
    \/ SessionEnd

(* The first run starts without a cache file. *)
SpecSessions == Init /\ [][NextSessions]_vars

(* The process is stopped inside cache.store: before File::create, or      *)
(* after it with some of the members written and the closing brace of the  *)
(* object not yet written (File::create has emptied the file, the          *)
(* BufWriter has flushed a prefix of the text).                            *)
SessionEndInterrupted ==
    /\ IsSome(loaded)
    /\ \/ UNCHANGED <<file, file_mtime>>
       \/ /\ \E written \in SUBSET Serialize(cache) : file' = Some(written \cup { <<"{">> })
          /\ file_mtime' = now
    /\ loaded' = None
    /\ cache' = [u \in Urls |-> None]
    /\ call' = NoCall
    /\ UNCHANGED <<now, etagVars, runVars>>

(* Runs that share the cache file, some of them stopped while storing. *)
SpecInterrupted == Init /\ [][NextSessions \/ SessionEndInterrupted]_vars

(* C15: once a 429 is recorded for a URL with a cached body (retry_after R *)
(* at timestamp T), no later run sends a request for the URL before T + R, *)
(* whatever R, max_cache_age and the spacing of the runs.                  *)
C15_NoRequestInsideRecordedWindow ==
    LET FiledEntry == Deserialize(Unwrap(file))[call.url]
        RecordedWindowOpen ==
            /\ IsSome(file)
            /\ IsSome(FiledEntry)
            /\ IsSome(Unwrap(FiledEntry).body)
            /\ IsSome(Unwrap(FiledEntry).retry_after)
            /\ Unwrap(FiledEntry).timestamp
                 + SpanTotal(Unwrap(Unwrap(FiledEntry).retry_after)) > call.at
    IN (IsSome(loaded) /\ Called /\ RecordedWindowOpen) => ~call.request.sent

(* C16: every entry of the cache file has a body. *)
C16_NoBodilessEntryPersisted ==
    IsSome(file) => \A mb \in Unwrap(file) : mb[2].body # JsonNull

(* ----------------------------------------- the request fetch_feed sends *)

(* C17: a request carries If-Modified-Since equal to the cached            *)
(* last_modified exactly when the entry has one, and If-None-Match equal   *)
(* to the cached etag, as stored, exactly when the entry has one; each     *)
(* header goes with its own field, and neither is sent without an entry.   *)
C17_ConditionalHeadersMirrorEntry ==
    (Called /\ call.request.sent) =>
        /\ call.request.if_modified_since =
             IF IsSome(EntryBefore) THEN Unwrap(EntryBefore).last_modified ELSE None
        /\ call.request.if_none_match =
             IF IsSome(EntryBefore) THEN Unwrap(EntryBefore).etag ELSE None

C17_Witness ==
    /\ Called
    /\ call.request.sent
    /\ IsSome(EntryBefore)
    /\ Unwrap(EntryBefore).last_modified = None
    /\ Unwrap(EntryBefore).etag = Some(<<"W", "/", DQ, "a", DQ>>)
    /\ call.request.if_none_match = Some(<<"W", "/", DQ, "a", DQ>>)
    /\ call.request.if_modified_since = None

(* ------------------------------------------------------ the article list *)

(* run() has fetched the feeds and stored the cache: -n, -p and --before,   *)
(* and the feeds as get_feeds_from_urls returned them, none, one, or two.  *)
InitArticles ==
    /\ cache = [u \in Urls |-> None]
    /\ now = 0
    /\ call = NoCall
    /\ EtagIdle
    /\ DiskIdle
    /\ args \in { [NoArgs EXCEPT !.num_articles = n, !.per_source = p, !.before = b] :
                    n \in 0..3, p \in 0..3, b \in {None, Some(2)} }
    /\ run = [NotRunning EXCEPT !.pc = "stored"]
    /\ start_cache = <<>>
    /\ task = <<>>
    /\ feeds \in { <<>> } \cup { << <<f, "u1">> >> : f \in ParsedFeeds }
                 \cup { << <<f, "u1">>, <<g, "u2">> >> : f \in ParsedFeeds, g \in ParsedFeeds }
    /\ articles = <<>>

NextArticles == ReadTemplateFails \/ BuildArticles \/ TeraFails \/ Output

SpecArticles == InitArticles /\ [][NextArticles]_vars

(* Every article run() extracted from the feeds. *)
Extracted == FeedArticles(feeds, 1, args).list

(* C20: the list handed to the template has at most num_articles articles, *)
(* is in descending date order, and holds the num_articles most recent of  *)
(* the extracted articles (all of them when there are fewer).              *)
C20_MostRecentArticles ==
    LET Listed == {articles[i] : i \in 1..Len(articles)} IN
    run.pc \in {"built", "done"} =>
        /\ Len(articles) <= args.num_articles
        /\ Len(articles) = IF Len(Extracted) < args.num_articles
                           THEN Len(Extracted) ELSE args.num_articles
        /\ \A i \in 1..(Len(articles) - 1) :
             articles[i].timestamp >= articles[i + 1].timestamp
        /\ Cardinality(Listed) = Len(articles)
        /\ Listed \subseteq {Extracted[i] : i \in 1..Len(Extracted)}
        /\ \A i \in 1..Len(Extracted) :
             Extracted[i] \notin Listed =>
                \A x \in Listed : Extracted[i].timestamp <= x.timestamp

C20_Witness ==
    /\ run.pc = "done"
    /\ Len(feeds) = 2
    /\ Len(Extracted) = 4
    /\ args.num_articles = 2
    /\ articles = << Article("u1", 1, FeedEntry(3)), Article("u2", 3, FeedEntry(3)) >>
       \/ articles = << Article("u2", 3, FeedEntry(3)), Article("u1", 1, FeedEntry(3)) >>

(* ------------------------------------------------ a run without any feed *)

(* Every fetch unit of the run has ended in a failure. *)
AllFailed == task # <<>> /\ \A i \in DOMAIN task : task[i].outcome = "fail"

(* C19: when every fetch unit fails, get_feeds_from_urls returns an empty  *)
(* list and run goes on to an empty article list, failing only where a run *)
(* with feeds can fail too; an empty URL list is FeedMissing before any    *)
(* fetch unit is started.                                                  *)
C19_NoFeedsIsNotAnError ==
    /\ (AllFailed /\ run.pc \in {"fetched", "stored", "built", "done"}) => feeds = <<>>
    /\ (AllFailed /\ run.pc \in {"built", "done"}) => articles = <<>>
    /\ (AllFailed /\ run.pc = "error") => run.error \in {"IoError", "CsvError", "TemplateError"}
    /\ AllFailed => run.pc # "panicked"
    /\ (args.url = <<>> /\ run.pc # "start") =>
          run.pc = "error" /\ run.error = "FeedMissing" /\ task = <<>>
    /\ run.error = "FeedMissing" => args.url = <<>>

C19_Witness ==
    /\ AllFailed
    /\ Len(args.url) = 3
    /\ run.pc = "done"
    /\ feeds = <<>>
    /\ articles = <<>>

(* --------------------------------------------- the order of the fetch units *)

(* The unit at position i asked the server of its URL. *)
Asked(i) == task[i].resp.kind # "none"

(* The same per-URL responses: a server gave every unit the same answer. *)
SamePerUrl ==
    \A i \in DOMAIN task, j \in DOMAIN task :
        (args.url[i] = args.url[j] /\ Asked(i) /\ Asked(j)) => task[i].resp = task[j].resp

(* The closure of get_feeds_from_urls run at the time at: the entry it     *)
(* leaves, stamped with that time, and what it returns.                    *)
StampedAt(cvo, at) == IF IsSome(cvo) THEN Some([Unwrap(cvo) EXCEPT !.timestamp = at]) ELSE cvo
Yield(c, body) ==
    IF IsSome(body) /\ parse(Unwrap(body)).kind = "ok"
    THEN [cache |-> c, outcome |-> "ok", feed |-> parse(Unwrap(body)).feed]
    ELSE [cache |-> c, outcome |-> "fail", feed |-> ""]

(* One unit, run alone on the store c at the time at, with the answer the *)
(* server behind u gave in this run.                                       *)
UnitAlone(c, u, at) ==
    LET cvo == c[u]
        asking == {i \in DOMAIN task : args.url[i] = u /\ Asked(i)}
        resp == IF asking = {} THEN NoResponse ELSE task[CHOOSE i \in asking : TRUE].resp
        open == /\ IsSome(cvo)
                /\ IsSome(Unwrap(cvo).retry_after)
                /\ Unwrap(cvo).timestamp + SpanTotal(Unwrap(Unwrap(cvo).retry_after)) > at
    IN IF TaskWindowPanics(cvo) THEN [cache |-> c, outcome |-> "panic", feed |-> ""]
       ELSE IF open THEN Yield(c, Unwrap(cvo).body)
       ELSE IF UreqOk(resp)
       THEN Yield([c EXCEPT ![u] = StampedAt(TaskEntryAfterOk(cvo, resp), at)],
                  TaskBodyAfterOk(cvo, resp))
       ELSE IF TaskErrPanics(cvo, resp)
       THEN [cache |-> [c EXCEPT ![u] = StampedAt(TaskEntryAfterErr(cvo, resp), at)],
             outcome |-> "panic", feed |-> ""]
       ELSE Yield([c EXCEPT ![u] = StampedAt(TaskEntryAfterErr(cvo, resp), at)],
                  TaskBodyAfterErr(cvo, resp))

(* The units run one after the other in the order of the list, from        *)
(* position i on, up to the first panic.                                   *)
RECURSIVE OneByOne(_, _, _)
OneByOne(i, c, at) ==
    IF i > Len(args.url) THEN <<>>
    ELSE LET r == UnitAlone(c, args.url[i], at) IN
         IF r.outcome = "panic" THEN <<r>> ELSE <<r>> \o OneByOne(i + 1, r.cache, at)

(* The run whose units take their turns in list order when the run starts. *)
InOrder == OneByOne(1, start_cache, run.started)

(* This run ends as the run with the units in list order does. *)
EndsAsInOrder ==
    LET InOrderPanics == InOrder # <<>> /\ InOrder[Len(InOrder)].outcome = "panic" IN
    /\ run.pc \in {"fetched", "stored", "built", "done"} =>
         /\ ~InOrderPanics
         /\ feeds = FeedsOf(InOrder, args.url)
    /\ run.pc \in {"built", "done"} =>
         articles = Truncate(SortDesc(FeedArticles(FeedsOf(InOrder, args.url), 1, args).list),
                             args.num_articles)
    /\ run.pc = "panicked" => InOrderPanics

(* C18: with the same initial cache and the same per-URL responses, the    *)
(* URLs that succeed, the pairs get_feeds_from_urls returns and the        *)
(* article list are the same for every order in which the units run.       *)
C18_OrderHasNoEffect == SamePerUrl => EndsAsInOrder

(* C18, amended: ... as long as the clock reads the same for every unit.   *)
C18_OrderHasNoEffectAtOneTime == (SamePerUrl /\ now = run.started) => EndsAsInOrder

C18_Witness ==
    /\ run.pc = "done"
    /\ now = run.started
    /\ args.url = <<"u2", "u2">>
    /\ Asked(2) /\ ~Asked(1)
    /\ Len(feeds) = 2
    /\ Len(articles) = 2

(* ------------------------------------------- the entries run() considers *)

(* C21: the entries run() makes articles from are, for every feed, among   *)
(* the per_source most recent entries of the feed by date, in whatever     *)
(* order the feed lists its entries.                                       *)
C21_ConsidersMostRecentEntries ==
    run.pc \in {"built", "done"} =>
        \A i \in 1..Len(feeds), x \in 1..Len(Extracted) :
            Extracted[x].source_link = feeds[i][2] =>
                LET entries == FeedContent(feeds[i][1]).entries
                    k == Extracted[x].link[2]
                    newer == {j \in 1..Len(entries) :
                                entries[j].complete
                                /\ entries[j].timestamp > entries[k].timestamp}
                IN Cardinality(newer) < args.per_source

(* ------------------------------------- the entry fetch_feed leaves behind *)

C23_NotModifiedTakesNewValidators ==
    (Answered(304) /\ IsSome(EntryBefore)) =>
        /\ IsSome(EntryNow)
        /\ Unwrap(EntryNow).timestamp = call.at
        /\ Unwrap(EntryNow).body = Unwrap(EntryBefore).body
        /\ Unwrap(EntryNow).etag =
              (IF IsSome(call.resp.etag)
               THEN Some(normalize_etag(Unwrap(call.resp.etag)))
               ELSE Unwrap(EntryBefore).etag)
        /\ Unwrap(EntryNow).last_modified =
              (IF IsSome(call.resp.last_modified)
               THEN call.resp.last_modified
               ELSE Unwrap(EntryBefore).last_modified)

(* C24: when the request fails with a transport error, fetch_feed fails    *)
(* with that error, creates no entry, and leaves every entry as it was,    *)
(* but possibly for the timestamp of the entry of the URL.                 *)
C24_TransportErrorLeavesCache ==
    (Called /\ call.request.sent /\ call.resp.kind = "error") =>
        /\ call.result = Err("ReqwestError", "", 0)
        /\ \A u \in Urls \ {call.url} : cache[u] = call.before[u]
        /\ IsSome(EntryNow) = IsSome(EntryBefore)
        /\ IsSome(EntryBefore) =>
              [Unwrap(EntryNow) EXCEPT !.timestamp = 0]
                = [Unwrap(EntryBefore) EXCEPT !.timestamp = 0]

(* A transport error for a URL whose entry has validators and a body, at a *)
(* later time than the entry's, with an entry for the other URL too.       *)
C24_Witness ==
    /\ Called /\ call.request.sent /\ call.resp.kind = "error"
    /\ IsSome(EntryBefore)
    /\ IsSome(Unwrap(EntryBefore).body)
    /\ IsSome(Unwrap(EntryBefore).etag)
    /\ Unwrap(EntryBefore).timestamp < call.at
    /\ \A u \in Urls : IsSome(cache[u])

(* C25: when the body fetch_feed ends up with (the payload, the cached     *)
(* body after a 304 or a 429, or the cached body inside the retry window)  *)
(* does not parse, the call returns the parse error, and the entry stays   *)
(* as the call wrote it: it is there, with that body, stamped by the call  *)
(* that sent a request, untouched by the call that sent none.              *)
C25_ParseFailureKeepsEntry ==
    LET cached == IF IsSome(EntryBefore) THEN Unwrap(EntryBefore).body ELSE None
        final == IF ~call.request.sent THEN cached
                 ELSE IF call.resp.kind # "http" THEN None
                 ELSE IF call.resp.status \in 200..299 THEN call.resp.body
                 ELSE IF call.resp.status = 304
                 THEN (IF IsSome(EntryBefore) THEN cached ELSE call.resp.body)
                 ELSE IF call.resp.status = 429 THEN cached
                 ELSE None
    IN (Called /\ call.result.kind # "panic" /\ IsSome(final) /\ Unwrap(final) \notin ValidFeeds) =>
          /\ call.result.kind = "err" /\ call.result.err = "ParseFeedError"
          /\ IsSome(EntryNow)
          /\ Unwrap(EntryNow).body = final
          /\ IF call.request.sent
             THEN Unwrap(EntryNow).timestamp = call.at
             ELSE cache = call.before

(* A 200 whose payload is not a feed replaced a cached feed. *)
C25_Witness ==
    /\ Answered(200)
    /\ call.resp.body = Some("X")
    /\ IsSome(EntryBefore) /\ Unwrap(EntryBefore).body = Some("A")
    /\ call.result.err = "ParseFeedError"
    /\ Unwrap(EntryNow).body = Some("X")

(* C26: after a 429 for a URL with an entry, the entry's retry_after is    *)
(* exactly N seconds when the Retry-After header is the integer N, and     *)
(* exactly 4 hours when the header is missing or is not an integer.        *)
C26_RetryAfterIsHeaderOrDefault ==
    (Answered(429) /\ IsSome(EntryBefore)) =>
        /\ IsSome(EntryNow)
        /\ Unwrap(EntryNow).retry_after =
              (IF IsSome(call.resp.retry_after) /\ Unwrap(call.resp.retry_after).int
               THEN Some(Seconds(Unwrap(call.resp.retry_after).n))
               ELSE Some(Hours(DEFAULT_RETRY_HOURS)))

(* C27: for a URL whose entry has an open retry window                     *)
(* (timestamp + retry_after > now) and no body, fetch_feed sends the       *)
(* request, with the conditional headers of the entry, and deals with the  *)
(* answer.                                                                 *)
C27_OpenWindowWithoutBodySendsRequest ==
    (/\ Called
     /\ IsSome(EntryBefore)
     /\ IsSome(Unwrap(EntryBefore).retry_after)
     /\ Unwrap(EntryBefore).timestamp
          + SpanTotal(Unwrap(Unwrap(EntryBefore).retry_after)) > call.at
     /\ ~IsSome(Unwrap(EntryBefore).body))
    => (/\ call.request.sent
        /\ call.request.if_modified_since = Unwrap(EntryBefore).last_modified
        /\ call.request.if_none_match = Unwrap(EntryBefore).etag
        /\ call.resp.kind # "none")

(* ------------------------------------- the units of get_feeds_from_urls *)

(* C28: no unit of get_feeds_from_urls holds the guard of a cache entry    *)
(* while its request is in flight.                                         *)
C28_NoGuardAcrossRequest ==
    \A i \in DOMAIN task : ~(task[i].pc = "sent" /\ task[i].held)

(* C30: in get_feeds_from_urls, an error status other than 429 leaves the  *)
(* entry of the URL as it was, in every field.                             *)
C30_ErrorStatusLeavesEntry ==
    \A i \in DOMAIN task :
        (/\ task[i].pc = "done"
         /\ task[i].resp.kind = "http"
         /\ task[i].resp.status >= 400
         /\ task[i].resp.status # TOO_MANY_REQUESTS
         /\ \A j \in DOMAIN task : args.url[j] = args.url[i] => j = i)
        => cache[args.url[i]] = start_cache[args.url[i]]

(* ------------------------------------------- Cache::load and large ages *)

C31_ExpiredWindowStaysClosed ==
    [][(/\ (Answered(200) \/ Answered(304))
        /\ IsSome(EntryBefore)
        /\ IsSome(Unwrap(EntryBefore).retry_after)
        /\ Unwrap(EntryBefore).timestamp
             + SpanTotal(Unwrap(Unwrap(EntryBefore).retry_after)) <= call.at
        /\ call' # call
        /\ call'.url = call.url)
       => call'.request.sent]_vars

(* C32: in every cache state, an entry that holds an etag or a             *)
(* last_modified also holds a body.                                        *)
C32_ValidatorsComeWithBody ==
    \A u \in Urls :
        (IsSome(cache[u])
         /\ (IsSome(Unwrap(cache[u]).etag) \/ IsSome(Unwrap(cache[u]).last_modified)))
        => IsSome(Unwrap(cache[u]).body)

(* C33: a fetch_feed that sends no request because the retry window is    *)
(* open leaves the cache as it was, the entry's timestamp included, so the *)
(* end of the window does not move.                                        *)
C33_SkippedRequestLeavesCache ==
    (Called /\ ~call.request.sent /\ call.result.kind # "panic") =>
        /\ cache = call.before
        /\ Unwrap(EntryNow).timestamp + SpanTotal(Unwrap(Unwrap(EntryNow).retry_after))
             = Unwrap(EntryBefore).timestamp
                 + SpanTotal(Unwrap(Unwrap(EntryBefore).retry_after))

(* A request skipped an hour after the 429 that opened a four-hour window. *)
C33_Witness ==
    /\ Called /\ ~call.request.sent
    /\ call.result.kind = "ok"
    /\ Unwrap(EntryBefore).retry_after = Some(Hours(DEFAULT_RETRY_HOURS))
    /\ Unwrap(EntryBefore).timestamp < call.at
    /\ IsSome(Unwrap(EntryBefore).etag)

(* ------------------------------------------ entries of URLs not in the run *)

(* C34: the entry of a URL that is not in the list of the run is never     *)
(* changed or removed by a unit, and the store at the end of the run       *)
(* writes it to the cache file as the run loaded it.                       *)
C34_UnlistedEntriesAreKept ==
    \A u \in RunUrls :
        (run.pc \notin {"none", "start"} /\ \A i \in DOMAIN args.url : args.url[i] # u) =>
            /\ cache[u] = start_cache[u]
            /\ (args.cache /\ run.writes = 1 /\ run.error # "CsvError"
                 /\ IsSome(start_cache[u])) =>
                   /\ IsSome(file)
                   /\ \E r \in Unwrap(file) :
                        ParseUrl(r[1]) = u /\ FromCsvRecord(r) = Unwrap(start_cache[u])

(* A run over u2 alone that changed the entry of u2 and stored the cache,  *)
(* with entries for u1 and u3 loaded from the file.                        *)
C34_Witness ==
    /\ run.pc = "done"
    /\ args.cache
    /\ args.url = <<"u2", "u2">>
    /\ IsSome(start_cache["u1"]) /\ IsSome(start_cache["u3"])
    /\ cache["u2"] # start_cache["u2"]
    /\ run.writes = 1

(* ------------------------------------------------- the end of the fetching *)

(* C35: every unit of work ends and get_feeds_from_urls returns, whatever  *)
(* the list of URLs and the interleaving of the units.                     *)
C35_FetchingReturns ==
    (run.pc = "fetching") ~> (run.pc \in {"fetched", "error"})

(* What the fetching does reach: it ends, by returning or by the panic of *)
(* a unit, so no unit waits for a shard of the cache for ever.             *)
C35_FetchingEnds ==
    (run.pc = "fetching") ~> (run.pc # "fetching")

(* ------------------------------------------ the age of the file as a whole *)

(* C36: for a file that store wrote (no entry is younger than the file),   *)
(* load_cache gives up on the age of the file only when the filter of load *)
(* would have dropped every entry as well.                                 *)
C36_FileAgeAgreesWithEntryAges ==
    (/\ IsSome(loaded) /\ ~Unwrap(loaded).ok
     /\ args.cache
     /\ IsSome(file) /\ WellFormed(Unwrap(file))
     /\ file_mtime <= Unwrap(loaded).now
     /\ \A u \in Urls :
            IsSome(Deserialize(Unwrap(file))[u])
              => Unwrap(Deserialize(Unwrap(file))[u]).timestamp <= file_mtime)
    => LoadedMap(Unwrap(file), args.max_cache_age, Unwrap(loaded).now) = [u \in Urls |-> None]

(* A file of two entries, written an hour before the call and older than   *)
(* max_cache_age.                                                          *)
C36_Witness ==
    /\ IsSome(loaded) /\ ~Unwrap(loaded).ok
    /\ args.cache
    /\ IsSome(file) /\ WellFormed(Unwrap(file))
    /\ IsSome(Deserialize(Unwrap(file))["u1"]) /\ IsSome(Deserialize(Unwrap(file))["u2"])
    /\ \A u \in Urls :
           IsSome(Deserialize(Unwrap(file))[u])
             => Unwrap(Deserialize(Unwrap(file))[u]).timestamp <= file_mtime
    /\ file_mtime < Unwrap(loaded).now
    /\ Unwrap(loaded).now - file_mtime > args.max_cache_age

(* --------------------------------------------- every integer Retry-After *)

(* C37: whatever integer the Retry-After header of a 429 holds, zero,      *)
(* negative or very large, the call ends without a panic and the entry     *)
(* holds that number of seconds as retry_after.                            *)
C37_EveryIntegerRetryAfterIsStored ==
    (/\ Answered(TOO_MANY_REQUESTS)
     /\ IsSome(EntryBefore)
     /\ IsSome(RetryAfterSeconds(call.resp)))
    => /\ call.result.kind # "panic"
       /\ IsSome(EntryNow)
       /\ Unwrap(EntryNow).retry_after = Some(Seconds(Unwrap(RetryAfterSeconds(call.resp))))

(* ------------------------------------------------- a store that was cut *)

(* C38: after a store that was stopped at any point, load_cache of the     *)
(* next run returns None or the whole of a mapping that a store wrote to   *)
(* its end (less the entries the age filter drops), never a part of one.   *)
C38_InterruptedStoreIsAllOrNothing ==
    IsSome(loaded) =>
        \/ ~Unwrap(loaded).ok
        \/ /\ IsSome(file) /\ WellFormed(Unwrap(file))
           /\ Unwrap(loaded).map
                = LoadedMap(Unwrap(file), Unwrap(loaded).max_age_secs, Unwrap(loaded).now)

(* A run that starts on a file holding one whole member and no end. *)
C38_Witness ==
    /\ IsSome(loaded)
    /\ ~Unwrap(loaded).ok
    /\ IsSome(file)
    /\ ~WellFormed(Unwrap(file))
    /\ \E mb \in Unwrap(file) : Len(mb) = 2
    /\ file_mtime = Unwrap(loaded).now

(* ------------------------------------------- the normalisation, applied twice *)

(* C39: an etag that fetch_feed has stored, sent again as an ETag header,  *)
(* is stored as it is: normalising twice gives what normalising once gave, *)
(* for every header value.                                                 *)
C39_NormalizationIsIdempotent ==
    IsSome(etag_stored) =>
        Unwrap(EntryAfter(None, Http(200, etag_stored, None, None, Some("A")))).etag
          = etag_stored

(* A header that ends with a quote and does not start with one: it is      *)
(* wrapped, and the wrapped value is kept.                                 *)
C39_Witness ==
    /\ etag_header = <<"a", DQ>>
    /\ etag_stored = Some(<<DQ, "a", DQ, DQ>>)
    /\ normalize_etag(Unwrap(etag_stored)) = Unwrap(etag_stored)

====
